---- MODULE Spec2Model ----
(***************************************************************************)
(* Model of src/main.py: the snapshot pipeline fetch_snapshot ->           *)
(* parse_snapshot -> parse_flight_record driven by collect_flight_history. *)
(*                                                                         *)
(* Python values are tagged records, so that values of different Python    *)
(* types can be compared: None, numbers, strings (as sequences of          *)
(* characters), lists, dicts (as sequences of <<key, value>> pairs in      *)
(* insertion order), shapely points, and raised exceptions.                *)
(***************************************************************************)
EXTENDS Integers, Sequences, FiniteSets, TLC

VARIABLES
    countries,    \* module global `countries` (GeoDataFrame rows, in order)
    states,       \* module global `states`
    pc,           \* position of the running call
    hours,        \* argument of collect_flight_history
    h,            \* loop variable of collect_flight_history
    raw,          \* argument of parse_snapshot / local `raw` of collect
    entries,      \* value of parse_snapshot(raw) / local `entries`
    all_records,  \* local `all_records` of collect_flight_history
    requests,     \* the URLs requests.get was called with, in order
    responses     \* what the network answered to each of those requests

vars == <<countries, states, pc, hours, h, raw, entries, all_records,
          requests, responses>>

----------------------------------------------------------------------------
(* Bounds of the exploration. *)

MaxHours == 2     \* largest `hours` collect is called with
MaxNeg == 1       \* most negative `hours` collect is called with is -MaxNeg
MaxCoord == 1     \* latitudes and longitudes range over 0..MaxCoord
MaxItems == 2     \* longest top-level list payload given to parse_snapshot

----------------------------------------------------------------------------
(* Python values. *)

None == [t |-> "null"]
Num(n) == [t |-> "num", n |-> n]
Str(chars) == [t |-> "str", chars |-> chars]
List(items) == [t |-> "list", items |-> items]
Dict(pairs) == [t |-> "dict", pairs |-> pairs]
Raise(exc) == [t |-> "raise", exc |-> exc]

IsRaise(v) == v.t = "raise"

\* obj[i] for a 0-based integer index i.  A JSON object only has string
\* keys, so an integer subscript of a dict is a KeyError.
GetItem(obj, i) ==
    IF obj.t = "list"
    THEN IF i < Len(obj.items) THEN obj.items[i + 1] ELSE Raise("IndexError")
    ELSE IF obj.t = "str"
    THEN IF i < Len(obj.chars) THEN Str(<<obj.chars[i + 1]>>)
         ELSE Raise("IndexError")
    ELSE IF obj.t = "dict" THEN Raise("KeyError")
    ELSE Raise("TypeError")

\* Truth value of `if parsed:`.
Truthy(v) ==
    IF v.t = "null" THEN FALSE
    ELSE IF v.t = "list" THEN v.items # <<>>
    ELSE IF v.t = "dict" THEN v.pairs # <<>>
    ELSE IF v.t = "str" THEN v.chars # <<>>
    ELSE IF v.t = "num" THEN v.n # 0
    ELSE TRUE

\* shapely.geometry.Point(x, y): every coordinate is converted to a float;
\* None is not convertible (TypeError), nor is a non-numeric string.
Point(x, y) ==
    IF x.t = "num" /\ y.t = "num" THEN [t |-> "point", x |-> x.n, y |-> y.n]
    ELSE IF x.t = "str" \/ y.t = "str" THEN Raise("ValueError")
    ELSE Raise("TypeError")

\* geometry.contains(point); a geometry is the set of grid points it covers.
Contains(geometry, point) == <<point.x, point.y>> \in geometry

----------------------------------------------------------------------------
(* Boundary data sets: what load_shapefiles may have loaded. *)

Aland == [NAME |-> <<"A">>, geometry |-> {<<0, 0>>, <<1, 0>>}]
Bland == [NAME |-> <<"B">>, geometry |-> {<<1, 0>>, <<1, 1>>}]
Xshire == [name |-> <<"x">>, geometry |-> {<<0, 1>>}]
Yshire == [name |-> <<"y">>, geometry |-> {<<0, 1>>, <<0, 0>>}]

CountryCollections == {<<Aland, Bland>>, <<Bland, Aland>>}
StateCollections == {<<>>, <<Xshire, Yshire>>}

----------------------------------------------------------------------------
(* fetch_snapshot *)

\* BASE_URL.format(hour_offset): the offset as at least two decimal digits.
FormatUrl(hour_offset) ==
    IF hour_offset < 10 THEN <<0, hour_offset>>
    ELSE <<hour_offset \div 10, hour_offset % 10>>

\* A response is how the request ended ("ok", or the exception raised by
\* requests.get, raise_for_status or resp.json) and the decoded body.
fetch_snapshot_nostatus(resp) ==
    IF resp.err \in {"timeout", "bad_json"} THEN None ELSE resp.body

fetch_snapshot(resp) ==
    IF resp.err # "ok" THEN None ELSE resp.body

----------------------------------------------------------------------------
(* parse_flight_record *)

country_point(point) ==
    LET hit(row) == Contains(row.geometry, point)
    IN  SelectSeq(countries, hit)

state_point(point) ==
    LET hit(row) == Contains(row.geometry, point)
    IN  SelectSeq(states, hit)

country_lastmatch(point) ==
    LET cp == country_point(point)
    IN  IF cp # <<>> THEN Str(cp[Len(cp)].NAME) ELSE None

country(point) ==
    LET cp == country_point(point)
    IN  IF cp # <<>> THEN Str(cp[1].NAME) ELSE None

state(point) ==
    LET sp == state_point(point)
    IN  IF sp # <<>> THEN Str(sp[1].name) ELSE None

parse_flight_record(obj) ==
    LET lat == GetItem(obj, 0) IN
    IF IsRaise(lat) THEN lat ELSE
    LET lon == GetItem(obj, 1) IN
    IF IsRaise(lon) THEN lon ELSE
    LET alt == GetItem(obj, 2) IN
    IF IsRaise(alt) THEN alt ELSE
    LET point == Point(lon, lat) IN
    IF IsRaise(point) THEN point ELSE
    IF lat.t = "null" \/ lon.t = "null" THEN None
    ELSE [t |-> "rec", lat |-> lat, lon |-> lon, alt |-> alt,
          country |-> country(point), state |-> state(point)]

----------------------------------------------------------------------------
(* parse_snapshot *)

\* `for item in ...: parsed = parse_flight_record(item); if parsed:
\* results.append(parsed)`; the value is the list `results` after the loop,
\* or the exception that ended it.
RECURSIVE ParseItems(_, _)
ParseItems(items, results) ==
    IF items = <<>> THEN List(results)
    ELSE LET parsed == parse_flight_record(Head(items))
         IN  IF IsRaise(parsed) THEN parsed
             ELSE ParseItems(Tail(items),
                             IF Truthy(parsed) THEN Append(results, parsed)
                             ELSE results)

\* `for key, value in raw.items(): if isinstance(value, list): ...`
RECURSIVE ParsePairs(_, _)
ParsePairs(pairs, results) ==
    IF pairs = <<>> THEN List(results)
    ELSE LET value == Head(pairs)[2]
         IN  IF value.t = "list"
             THEN LET r == ParseItems(value.items, results)
                  IN  IF IsRaise(r) THEN r
                      ELSE ParsePairs(Tail(pairs), r.items)
             ELSE ParsePairs(Tail(pairs), results)

parse_snapshot(raw_) ==
    IF raw_.t = "null" THEN List(<<>>)
    ELSE IF raw_.t = "list" THEN ParseItems(raw_.items, <<>>)
    ELSE IF raw_.t = "dict" THEN ParsePairs(raw_.pairs, <<>>)
    ELSE List(<<>>)

----------------------------------------------------------------------------
(* Inputs. *)

Coords == {Num(c) : c \in 0..MaxCoord}

\* Record candidates that carry a position.
GoodCandidates ==
    {List(<<la, lo, Num(1500)>>) : la \in Coords, lo \in Coords}
    \cup {List(<<Num(0), Num(0), None>>)}

\* Record candidates with a null coordinate, with fewer than three slots, or
\* that are no sequence at all.
OddCandidates ==
    { List(<<None, Num(0), Num(300)>>), List(<<Num(1), None, Num(300)>>),
      List(<<Num(1), Num(0)>>), List(<<Num(1)>>), List(<<>>),
      Num(7), None, Str(<<"i", "d", "1">>), Dict(<<>>) }

Candidates == GoodCandidates \cup OddCandidates

SeqsUpTo(S, n) == UNION {[1..k -> S] : k \in 0..n}

ListPayloads == {List(s) : s \in SeqsUpTo(Candidates, MaxItems)}

\* Values of a keyed mapping: lists of candidates, scalars, a nested mapping.
MappingValues ==
    { List(<<>>), List(<<List(<<Num(1), Num(0), Num(100)>>)>>),
      List(<<List(<<Num(0), Num(1), None>>),
             List(<<Num(1), Num(1), Num(100)>>)>>),
      List(<<List(<<Num(1)>>)>>),
      Str(<<"i", "g", "n", "o", "r", "e">>), Num(7), None,
      Dict(<<<<"k", Num(1)>>>>) }

MappingPayloads ==
    {Dict(<<>>)}
    \cup {Dict(<<<<k, v>>>>) : k \in {"flights", "meta"}, v \in MappingValues}
    \cup {Dict(<<<<"flights", v>>, <<"meta", w>>>>) :
             v \in MappingValues, w \in MappingValues}
    \cup {Dict(<<<<"meta", v>>, <<"flights", w>>>>) :
             v \in MappingValues, w \in MappingValues}

OtherPayloads == {None, Num(7), Str(<<"o", "k">>)}

Payloads == ListPayloads \cup MappingPayloads \cup OtherPayloads

\* Bodies the upstream source answers collect_flight_history with.
Bodies ==
    { List(<<>>),
      List(<<List(<<Num(0), Num(1), Num(1500)>>)>>),
      List(<<List(<<Num(1), Num(0), None>>),
             List(<<Num(1), Num(1), Num(1500)>>)>>),
      Dict(<<<<"flights", List(<<List(<<Num(1), Num(1), Num(100)>>)>>)>>,
             <<"meta", Str(<<"i", "g", "n", "o", "r", "e">>)>>>>),
      Num(7), None,
      List(<<List(<<Num(0), Num(0), Num(1500)>>),
             List(<<None, Num(1), Num(300)>>)>>),
      List(<<List(<<Num(1)>>)>>),
      List(<<List(<<Num(1), Num(0)>>)>>) }

Responses ==
    {[err |-> "ok", body |-> b] : b \in Bodies}
    \cup { [err |-> "timeout", body |-> None],
           [err |-> "bad_json", body |-> None],
           [err |-> "http_error",
            body |-> List(<<List(<<Num(0), Num(1), Num(1500)>>)>>)] }

----------------------------------------------------------------------------
(* collect_flight_history *)

range_abs(n) == [i \in 1..(IF n < 0 THEN 0 - n ELSE n) |-> i - 1]

\* range(n) as the sequence of its values.
range(n) == [i \in 1..n |-> i - 1]

Init ==
    /\ countries \in CountryCollections
    /\ states \in StateCollections
    /\ pc = "idle"
    /\ hours = 0
    /\ h = 0
    /\ raw = None
    /\ entries = None
    /\ all_records = <<>>
    /\ requests = <<>>
    /\ responses = <<>>

\* collect_flight_history(n) up to the first iteration of its loop.
Call(n) ==
    /\ pc = "idle"
    /\ hours' = n
    /\ all_records' = <<>>
    /\ IF range(n) # <<>>
       THEN h' = range(n)[1] /\ pc' = "fetch"
       ELSE h' = h /\ pc' = "done"
    /\ UNCHANGED <<countries, states, raw, entries, requests, responses>>

\* raw = fetch_snapshot(h), the network answering with resp.
Fetch(resp) ==
    /\ pc = "fetch"
    /\ requests' = Append(requests, FormatUrl(h))
    /\ responses' = Append(responses, resp)
    /\ LET r == fetch_snapshot(resp)
       IN  IF IsRaise(r)
           THEN pc' = "raised" /\ raw' = raw
           ELSE pc' = "parse" /\ raw' = r
    /\ UNCHANGED <<countries, states, hours, h, entries, all_records>>

\* entries = parse_snapshot(raw); all_records.extend(entries); next h.
Parse ==
    /\ pc = "parse"
    /\ entries' = parse_snapshot(raw)
    /\ IF IsRaise(entries')
       THEN pc' = "raised" /\ UNCHANGED <<h, all_records>>
       ELSE /\ all_records' = all_records \o entries'.items
            /\ IF h + 1 < Len(range(hours))
               THEN h' = range(hours)[h + 2] /\ pc' = "fetch"
               ELSE h' = h /\ pc' = "done"
    /\ UNCHANGED <<countries, states, hours, raw, requests, responses>>

Next ==
    \/ \E n \in (0 - MaxNeg)..MaxHours : Call(n)
    \/ \E resp \in Responses : Fetch(resp)
    \/ Parse

Spec == Init /\ [][Next]_vars

----------------------------------------------------------------------------
(* parse_snapshot on its own, applied to every payload. *)

InitParse ==
    /\ countries \in CountryCollections
    /\ states \in StateCollections
    /\ pc = "parse_call"
    /\ raw \in Payloads
    /\ hours = 0
    /\ h = 0
    /\ entries = None
    /\ all_records = <<>>
    /\ requests = <<>>
    /\ responses = <<>>

ParseCall ==
    /\ pc = "parse_call"
    /\ entries' = parse_snapshot(raw)
    /\ pc' = "parse_return"
    /\ UNCHANGED <<countries, states, hours, h, raw, all_records, requests,
                   responses>>

NextParse == ParseCall

ParseSpec == InitParse /\ [][NextParse]_vars

----------------------------------------------------------------------------
(* Vocabulary of the properties. *)

\* parse_snapshot has returned or raised, and `entries` is its outcome on
\* `raw`.
Returned == pc = "parse_return"

\* A record candidate with a position: at least two positional slots, the
\* first two of them numbers.
HasPosition(c) ==
    /\ c.t = "list"
    /\ Len(c.items) >= 2
    /\ c.items[1].t = "num"
    /\ c.items[2].t = "num"

\* A candidate with three slots whose coordinates are numbers or null.
ThreeSlots(c) ==
    /\ c.t = "list"
    /\ Len(c.items) = 3
    /\ c.items[1].t \in {"num", "null"}
    /\ c.items[2].t \in {"num", "null"}

\* A candidate that exposes fewer than two positional slots.
FewerThanTwoSlots(c) == c.t # "list" \/ Len(c.items) < 2

\* (latitude, longitude, altitude) of a candidate with a position; the
\* altitude is null when the slot is missing.
Triple(c) ==
    <<c.items[1], c.items[2],
      IF Len(c.items) >= 3 THEN c.items[3] ELSE None>>

RECURSIVE ValidTriples(_)
ValidTriples(items) ==
    IF items = <<>> THEN <<>>
    ELSE (IF HasPosition(Head(items)) THEN <<Triple(Head(items))>> ELSE <<>>)
         \o ValidTriples(Tail(items))

RECURSIVE MappingTriples(_)
MappingTriples(pairs) ==
    IF pairs = <<>> THEN <<>>
    ELSE (IF Head(pairs)[2].t = "list"
          THEN ValidTriples(Head(pairs)[2].items) ELSE <<>>)
         \o MappingTriples(Tail(pairs))

TriplesOf(records) ==
    [i \in 1..Len(records) |->
        <<records[i].lat, records[i].lon, records[i].alt>>]

\* Indices of the rows of a collection whose geometry contains (lon, lat).
Matches(collection, lon, lat) ==
    {i \in 1..Len(collection) : <<lon, lat>> \in collection[i].geometry}

Least(S) == CHOOSE i \in S : \A j \in S : i <= j

Failed(resp) == resp.err # "ok"

\* What the answers so far should have contributed to the result: nothing
\* for a failed request, the parsed records of the body otherwise.
RECURSIVE Contributions(_)
Contributions(resps) ==
    IF resps = <<>> THEN <<>>
    ELSE (IF Failed(Head(resps)) THEN <<>>
          ELSE parse_snapshot(Head(resps).body).items)
         \o Contributions(Tail(resps))

----------------------------------------------------------------------------
(* Properties. *)

\* C1: for every hours >= 0 and every combination of per-offset outcomes,
\* collect runs to completion over all offsets and returns the accumulated
\* records; no per-offset or per-candidate error propagates out of it.
CollectRunsToCompletion ==
    /\ pc # "raised"
    /\ (pc = "done" /\ hours >= 0) => Len(responses) = hours

\* C2: a candidate whose latitude or longitude is null is dropped: parse
\* returns normally, without that candidate and with the other candidates'
\* records, so that every record has non-null lat and lon.
NullCoordinateDropped ==
    (Returned /\ raw.t = "list" /\ \A i \in 1..Len(raw.items) :
                                      ThreeSlots(raw.items[i]))
    => /\ entries.t = "list"
       /\ TriplesOf(entries.items) = ValidTriples(raw.items)
       /\ \A i \in 1..Len(entries.items) :
              entries.items[i].lat.t # "null" /\ entries.items[i].lon.t # "null"

\* C3: a candidate exposing fewer than two positional slots is skipped
\* without an exception, and parse still returns the records of the
\* remaining candidates.
MalformedCandidateSkipped ==
    (Returned /\ raw.t = "list"
        /\ \A i \in 1..Len(raw.items) :
              \/ FewerThanTwoSlots(raw.items[i])
              \/ HasPosition(raw.items[i]) /\ Len(raw.items[i].items) = 3)
    => /\ entries.t = "list"
       /\ TriplesOf(entries.items) = ValidTriples(raw.items)

\* C4: for a sequence payload parse returns exactly one record per valid
\* element, in the order of the payload, and nothing for an invalid element.
OneRecordPerValidElement ==
    (Returned /\ raw.t = "list")
    => /\ entries.t = "list"
       /\ Len(entries.items) = Len(ValidTriples(raw.items))
       /\ TriplesOf(entries.items) = ValidTriples(raw.items)

\* C5: a failed fetch is contained: fetch_snapshot returns the failure marker
\* None instead of raising, parse_snapshot of the marker is the empty list,
\* and the result of collect holds nothing for that offset and exactly the
\* records of every other offset.
FetchFailureContained ==
    /\ (pc = "parse" /\ Failed(responses[Len(responses)]))
       => raw.t = "null"
    /\ (pc \in {"fetch", "done", "raised"} /\ responses # <<>>
          /\ Failed(responses[Len(responses)]))
       => pc # "raised" /\ entries.t = "list" /\ entries.items = <<>>
    /\ pc = "done" => all_records = Contributions(responses)

FetchFailureContainedWitness ==
    /\ pc = "done"
    /\ hours = 2
    /\ Failed(responses[1])
    /\ ~Failed(responses[2])
    /\ all_records # <<>>

\* C6: collect(N) issues exactly N fetch attempts, one for each offset in
\* [0, N) and no other, whatever each fetch returns; collect(0) issues none
\* and returns an empty sequence.
ExactlyOneFetchPerOffset ==
    (pc \in {"done", "raised"} /\ hours >= 0)
    => /\ requests = [k \in 1..hours |-> FormatUrl(k - 1)]
       /\ hours = 0 => pc = "done" /\ all_records = <<>>

\* C7: each tier is resolved on its own: the country of a record is the name
\* of the first row of `countries`, in row order, whose geometry contains
\* the point (lon, lat), or null when no row does; the state likewise from
\* `states`.
GeocodeFirstMatchPerTier ==
    (Returned /\ entries.t = "list")
    => \A i \in 1..Len(entries.items) :
          LET rec == entries.items[i]
              C == Matches(countries, rec.lon.n, rec.lat.n)
              S == Matches(states, rec.lon.n, rec.lat.n)
          IN  /\ rec.country =
                    IF C = {} THEN None ELSE Str(countries[Least(C)].NAME)
              /\ rec.state =
                    IF S = {} THEN None ELSE Str(states[Least(S)].name)

GeocodeFirstMatchPerTierWitness ==
    /\ Returned
    /\ entries.t = "list"
    /\ \E i \in 1..Len(entries.items) :
          LET rec == entries.items[i]
          IN  /\ Cardinality(Matches(countries, rec.lon.n, rec.lat.n)) = 2
              /\ rec.country.t = "str"
              /\ states # <<>>
              /\ rec.state.t = "null"

\* C8: for a keyed mapping parse returns the concatenation, in the mapping's
\* iteration order, of the records of the sequence-valued entries; a value
\* that is no sequence contributes nothing and causes no error.
MappingConcatenation ==
    (Returned /\ raw.t = "dict")
    => /\ entries.t = "list"
       /\ TriplesOf(entries.items) = MappingTriples(raw.pairs)

\* C9: altitude is optional: a candidate with non-null latitude and
\* longitude is accepted whether its altitude slot is present, null or
\* missing (exactly two slots), and the record carries the altitude
\* unchanged, null when it was missing.
AltitudeOptional ==
    (Returned /\ raw.t = "list" /\ \A i \in 1..Len(raw.items) :
                                      HasPosition(raw.items[i]))
    => /\ entries.t = "list"
       /\ Len(entries.items) = Len(raw.items)
       /\ \A i \in 1..Len(raw.items) :
              TriplesOf(entries.items)[i] = Triple(raw.items[i])

\* C10: collect called with a negative hours fails fast with an error
\* raised to the caller; it never returns an empty window silently.
NegativeHoursFailsFast == hours < 0 => pc = "raised"

\* C10, as the code has it: collect called with a negative hours issues no
\* fetch, raises nothing and returns the empty list.
NegativeHoursEmptyWindow ==
    hours < 0 => pc = "done" /\ all_records = <<>> /\ requests = <<>>

NegativeHoursEmptyWindowWitness == hours < 0 /\ pc = "done"

====
